---- MODULE Spec2Model ----
(***************************************************************************)
(* Model of scripts/generate-updater-manifests.py: one run of main(), from *)
(* tag validation through release lookup, per-target asset resolution,      *)
(* signature download and the writing of latest.json.                       *)
(*                                                                          *)
(* Strings are sequences of one-character strings, so that the regular      *)
(* expressions, substring tests, prefix removal, splitting and ordering of   *)
(* the script are computed on characters as Python computes them.  Bytes     *)
(* are sequences of integers 0..255 and decoded text is a sequence of        *)
(* code points.                                                              *)
(***************************************************************************)
EXTENDS Integers, Sequences, FiniteSets, TLC

\* ------------------------------------------------------------------------
\* Bounds of the exploration
\* ------------------------------------------------------------------------

\* largest number of assets attached to the release
MaxAssets == 4

\* ------------------------------------------------------------------------
\* Characters and strings
\* ------------------------------------------------------------------------

\* the characters in use, in code point order (Python compares str by code point)
Alphabet == <<" ", "+", ",", "-", ".", "0", "1", "2", "3", "4", "5", "6", "7", "8", "9", "A", "B", "C", "D", "E", "F", "G", "H", "I", "J", "K", "L", "M", "N", "O", "P", "Q", "R", "S", "T", "U", "V", "W", "X", "Y", "Z", "_", "a", "b", "c", "d", "e", "f", "g", "h", "i", "j", "k", "l", "m", "n", "o", "p", "q", "r", "s", "t", "u", "v", "w", "x", "y", "z">>

Ord(c) == CHOOSE i \in 1..Len(Alphabet) : Alphabet[i] = c

Digits == {"0", "1", "2", "3", "4", "5", "6", "7", "8", "9"}

Letters == {Alphabet[i] : i \in 16..41} \cup {Alphabet[i] : i \in 43..68}

Range(s) == {s[i] : i \in 1..Len(s)}

Min(a, b) == IF a <= b THEN a ELSE b

\* p occurs in s starting at position i
StartsAt(s, i, p) ==
    /\ i >= 1
    /\ i + Len(p) - 1 <= Len(s)
    /\ SubSeq(s, i, i + Len(p) - 1) = p

EndsWith(s, e) == StartsAt(s, Len(s) - Len(e) + 1, e)

\* Python: sub in s
Contains(s, sub) ==
    \/ sub = <<>>
    \/ \E i \in 1..(Len(s) - Len(sub) + 1) : s[i] = sub[1] /\ StartsAt(s, i, sub)

\* Python: a < b on str
StrLess(a, b) ==
    \E k \in 1..(Min(Len(a), Len(b)) + 1) :
        /\ SubSeq(a, 1, k - 1) = SubSeq(b, 1, k - 1)
        /\ \/ k > Len(a) /\ k <= Len(b)
           \/ k <= Len(a) /\ k <= Len(b) /\ Ord(a[k]) < Ord(b[k])

\* Python: s.strip(), ws the whitespace of the alphabet of s
Strip(s, ws) ==
    LET keep == {i \in 1..Len(s) : s[i] \notin ws}
    IN  IF keep = {} THEN <<>>
        ELSE LET lo == CHOOSE i \in keep : \A j \in keep : i <= j
                 hi == CHOOSE i \in keep : \A j \in keep : j <= i
             IN  SubSeq(s, lo, hi)

\* Python: s.removeprefix("v")
removeprefix(s) == IF StartsAt(s, 1, <<"v">>) THEN SubSeq(s, 2, Len(s)) ELSE s

\* Python: s.split(","), as the sequence of the pieces
RECURSIVE split(_)
split(s) ==
    LET commas == {i \in 1..Len(s) : s[i] = ","}
    IN  IF commas = {} THEN <<s>>
        ELSE LET c == CHOOSE i \in commas : \A j \in commas : i <= j
             IN  <<SubSeq(s, 1, c - 1)>> \o split(SubSeq(s, c + 1, Len(s)))

WhitespaceChars == {" "}

\* ------------------------------------------------------------------------
\* Bytes and text
\* ------------------------------------------------------------------------

\* code points str.strip() removes (those below 256)
WhitespaceCodes == {9, 10, 11, 12, 13, 28, 29, 30, 31, 32, 133, 160}

IsCont(b) == b >= 128 /\ b <= 191

\* bytes.decode("utf-8"): ok is FALSE where Python raises UnicodeDecodeError
RECURSIVE decode(_)
decode(bytes) ==
    IF bytes = <<>> THEN [ok |-> TRUE, text |-> <<>>]
    ELSE
      LET b == bytes[1]
          n == IF b < 128 THEN 1
               ELSE IF b >= 194 /\ b <= 223 THEN 2
               ELSE IF b >= 224 /\ b <= 239 THEN 3
               ELSE IF b >= 240 /\ b <= 244 THEN 4
               ELSE 0
          wellFormed ==
              /\ n > 0
              /\ Len(bytes) >= n
              /\ \A i \in 2..n : IsCont(bytes[i])
              /\ (b = 224) => bytes[2] >= 160
              /\ (b = 237) => bytes[2] <= 159
              /\ (b = 240) => bytes[2] >= 144
              /\ (b = 244) => bytes[2] <= 143
          cp == IF n = 1 THEN b
                ELSE IF n = 2 THEN (b - 192) * 64 + (bytes[2] - 128)
                ELSE IF n = 3 THEN (b - 224) * 4096 + (bytes[2] - 128) * 64 + (bytes[3] - 128)
                ELSE (b - 240) * 262144 + (bytes[2] - 128) * 4096
                     + (bytes[3] - 128) * 64 + (bytes[4] - 128)
      IN  IF ~wellFormed THEN [ok |-> FALSE, text |-> <<>>]
          ELSE LET rest == decode(SubSeq(bytes, n + 1, Len(bytes)))
               IN  [ok |-> rest.ok, text |-> <<cp>> \o rest.text]

\* ------------------------------------------------------------------------
\* String constants of the script and of the explored inputs
\* ------------------------------------------------------------------------

S_macos == <<"m", "a", "c", "o", "s">>
S_darwin == <<"d", "a", "r", "w", "i", "n">>
S_windows == <<"w", "i", "n", "d", "o", "w", "s">>
S_aarch64 == <<"a", "a", "r", "c", "h", "6", "4">>
S_arm64 == <<"a", "r", "m", "6", "4">>
S_x86_64 == <<"x", "8", "6", "_", "6", "4">>
S_x64 == <<"x", "6", "4">>
S_app_tar_gz == <<".", "a", "p", "p", ".", "t", "a", "r", ".", "g", "z">>
S_tar_gz == <<".", "t", "a", "r", ".", "g", "z">>
S_exe == <<".", "e", "x", "e">>
S_sig == <<".", "s", "i", "g">>
S_nightly == <<"n", "i", "g", "h", "t", "l", "y">>
S_App == <<"A", "p", "p">>
V_1_2_3 == <<"1", ".", "2", ".", "3">>
V_2_0_0 == <<"2", ".", "0", ".", "0">>
T_v1_2_3 == <<"v", "1", ".", "2", ".", "3">>
T_v2_0_0 == <<"v", "2", ".", "0", ".", "0">>
T_1_2_3 == <<"1", ".", "2", ".", "3">>
T_v1_2 == <<"v", "1", ".", "2">>
T_v10_0_12 == <<"v", "1", "0", ".", "0", ".", "1", "2">>
T_pre == <<"v", "1", ".", "2", ".", "3", "-", "b", "e", "t", "a", ".", "1">>
T_meta == <<"v", "1", ".", "2", ".", "3", "+", "b", "u", "i", "l", "d", ".", "5">>
T_pre_meta == <<"v", "1", ".", "2", ".", "3", "-", "b", "e", "t", "a", ".", "1", "+", "b", "u", "i", "l", "d", ".", "5">>
T_dash == <<"v", "1", ".", "2", ".", "3", "-">>
T_x == <<"v", "1", ".", "x", ".", "3">>
T_under == <<"v", "1", ".", "2", ".", "3", "_", "r", "c">>
P_two == <<"d", "a", "r", "w", "i", "n", "-", "a", "a", "r", "c", "h", "6", "4", ",", " ", "w", "i", "n", "d", "o", "w", "s", "-", "x", "8", "6", "_", "6", "4">>
P_linux == <<"l", "i", "n", "u", "x", "-", "x", "8", "6", "_", "6", "4">>
P_commas == <<" ", ",", " ">>

\* ------------------------------------------------------------------------
\* Tag validation (main, lines 141-146)
\* ------------------------------------------------------------------------

\* ends (exclusive) of the non-empty runs of digits of s that start at i: \d+
DigitRunEnds(s, i) ==
    {j \in (i + 1)..(Len(s) + 1) : \A k \in i..(j - 1) : s[k] \in Digits}

\* ends (exclusive) of the prefixes of s that match v\d+\.\d+\.\d+
CoreEnds(s) ==
    {e \in 1..(Len(s) + 1) :
        /\ Len(s) >= 1
        /\ s[1] = "v"
        /\ \E a \in DigitRunEnds(s, 2) :
              /\ a <= Len(s)
              /\ s[a] = "."
              /\ \E b \in DigitRunEnds(s, a + 1) :
                    /\ b <= Len(s)
                    /\ s[b] = "."
                    /\ e \in DigitRunEnds(s, b + 1)}

\* re.fullmatch(r"v\d+\.\d+\.\d+", tag)
stable_tag_re(tag) == (Len(tag) + 1) \in CoreEnds(tag)

\* the class [0-9A-Za-z.-]
SuffixChars == Digits \cup Letters \cup {".", "-"}

\* re.fullmatch(r"v\d+\.\d+\.\d+(?:[-+][0-9A-Za-z.-]+)?", tag)
nightly_tag_re(tag) ==
    \E e \in CoreEnds(tag) :
        \/ e = Len(tag) + 1
        \/ /\ e + 1 <= Len(tag)
           /\ tag[e] \in {"-", "+"}
           /\ \A k \in (e + 1)..Len(tag) : tag[k] \in SuffixChars

\* variant: the nightly branch forgets its check
tag_accepted_stable_only(channel, tag) ==
    IF channel = "stable" THEN stable_tag_re(tag) ELSE TRUE

\* TRUE iff neither RuntimeError of lines 141-146 is raised
tag_accepted(channel, tag) ==
    IF channel = "stable" THEN stable_tag_re(tag)
    ELSE IF tag # S_nightly THEN nightly_tag_re(tag)
    ELSE TRUE

\* ------------------------------------------------------------------------
\* Asset matching
\* ------------------------------------------------------------------------

NoAsset == [id |-> 0, name |-> <<>>, url |-> "", browser_download_url |-> ""]

\* a.get("name", "") matches
\*   ^.+_{version}_({platform_re})_{arch}.*{extension}$
\* with every interpolated part escaped, i.e. literal
pattern_match(name, version, platform_aliases, arch, extension) ==
    /\ EndsWith(name, extension)
    /\ \E p \in Range(platform_aliases) :
          LET fixed == <<"_">> \o version \o <<"_">> \o p \o <<"_">> \o arch
          IN  \E i \in 2..(Len(name) - Len(extension) - Len(fixed) + 1) :
                  name[i] = "_" /\ StartsAt(name, i, fixed)

\* status "ok": the one item; "missing" and "multiple": the RuntimeErrors,
\* the second with the names it lists
_pick_one(items, name) ==
    IF Cardinality(items) = 1
    THEN [status |-> "ok", asset |-> CHOOSE a \in items : TRUE, names |-> {}]
    ELSE IF items = {}
    THEN [status |-> "missing", asset |-> NoAsset, names |-> {}]
    ELSE [status |-> "multiple", asset |-> NoAsset,
          names |-> {a.name : a \in items}]

_find_updater_asset(assets, version, platform_aliases, arch, extension) ==
    LET candidates ==
            {a \in assets :
                pattern_match(a.name, version, platform_aliases, arch, extension)}
    IN  _pick_one(candidates, "updater")

\* sort key of line 83-86: a sorts before or with b
RankLeq(a, b, updater_asset_name) ==
    LET ka == IF Contains(a.name, updater_asset_name) THEN 0 ELSE 1
        kb == IF Contains(b.name, updater_asset_name) THEN 0 ELSE 1
    IN  \/ ka < kb
        \/ ka = kb /\ (a.name = b.name \/ StrLess(a.name, b.name))

\* variant: the exact name is not looked for first
_find_signature_asset_by_pattern(assets, version, platform_aliases, arch, updater_asset_name) ==
    LET candidates ==
            {a \in assets :
                pattern_match(a.name, version, platform_aliases, arch, S_sig)}
        best == CHOOSE a \in candidates :
                    \A b \in candidates : RankLeq(a, b, updater_asset_name)
        tied == {a \in candidates :
                    Contains(a.name, updater_asset_name)
                        = Contains(best.name, updater_asset_name)}
    IN  IF Cardinality(candidates) <= 1 THEN _pick_one(candidates, "signature")
        ELSE _pick_one(tied, "signature")

_find_signature_asset(assets, version, platform_aliases, arch, updater_asset_name) ==
    LET exact_name == updater_asset_name \o S_sig
        exact == {a \in assets : a.name = exact_name}
        candidates ==
            {a \in assets :
                pattern_match(a.name, version, platform_aliases, arch, S_sig)}
        best == CHOOSE a \in candidates :
                    \A b \in candidates : RankLeq(a, b, updater_asset_name)
        tied == {a \in candidates :
                    Contains(a.name, updater_asset_name)
                        = Contains(best.name, updater_asset_name)}
    IN  IF exact # {} THEN _pick_one(exact, "signature")
        ELSE IF Cardinality(candidates) <= 1 THEN _pick_one(candidates, "signature")
        ELSE _pick_one(tied, "signature")

\* ------------------------------------------------------------------------
\* Targets (main, lines 176-209)
\* ------------------------------------------------------------------------

static_targets ==
    << [os_target |-> S_darwin, arch_canonical |-> S_aarch64,
        platform_aliases |-> <<S_macos, S_darwin>>,
        arch_aliases |-> <<S_aarch64, S_arm64>>,
        extensions |-> <<S_app_tar_gz, S_tar_gz>>],
       [os_target |-> S_darwin, arch_canonical |-> S_x86_64,
        platform_aliases |-> <<S_macos, S_darwin>>,
        arch_aliases |-> <<S_x86_64, S_x64>>,
        extensions |-> <<S_app_tar_gz, S_tar_gz>>],
       [os_target |-> S_windows, arch_canonical |-> S_x86_64,
        platform_aliases |-> <<S_windows>>,
        arch_aliases |-> <<S_x86_64, S_x64>>,
        extensions |-> <<S_exe>>] >>

\* variant: the key leaves out the architecture
platform_key_os_only(t) == t.os_target

\* f"{os_target}-{arch_canonical}"
platform_key(t) == t.os_target \o <<"-">> \o t.arch_canonical

\* set(p.strip() for p in platforms.split(",") if p.strip())
platform_filter(platforms) ==
    LET pieces == split(platforms)
    IN  {Strip(pieces[i], WhitespaceChars) : i \in 1..Len(pieces)} \ {<<>>}

RECURSIVE SelectSeq2(_, _)
SelectSeq2(seq, keep) ==
    IF seq = <<>> THEN <<>>
    ELSE IF platform_key(Head(seq)) \in keep
         THEN <<Head(seq)>> \o SelectSeq2(Tail(seq), keep)
         ELSE SelectSeq2(Tail(seq), keep)

\* the targets list after lines 200-205
filtered_targets(platforms) ==
    IF platforms # <<>> THEN SelectSeq2(static_targets, platform_filter(platforms))
    ELSE static_targets

\* ------------------------------------------------------------------------
\* The search of lines 217-235 for one target
\* ------------------------------------------------------------------------

\* the (arch, ext) combinations in the order of the two nested loops
combos(target) ==
    [k \in 1..(Len(target.arch_aliases) * Len(target.extensions)) |->
        [arch |-> target.arch_aliases[((k - 1) \div Len(target.extensions)) + 1],
         ext  |-> target.extensions[((k - 1) % Len(target.extensions)) + 1]]]

RECURSIVE search_from(_, _, _, _, _, _)
search_from(assets, version, target, k, multiple, last_error) ==
    IF k > Len(combos(target))
    THEN [updater_asset |-> NoAsset, matched_arch_alias |-> <<>>,
          ambiguous |-> multiple, last_error |-> last_error]
    ELSE \* one evaluation of the try block of lines 222-233
         LET c == combos(target)[k]
             r == _find_updater_asset(assets, version, target.platform_aliases,
                                      c.arch, c.ext)
         IN  IF r.status = "ok"
             THEN [updater_asset |-> r.asset, matched_arch_alias |-> c.arch,
                   ambiguous |-> multiple, last_error |-> last_error]
             ELSE search_from(assets, version, target, k + 1,
                              IF r.status = "multiple" THEN multiple \cup {k} ELSE multiple,
                              r.status)

updater_search(assets, version, target) ==
    search_from(assets, version, target, 1, {}, "none")

\* ------------------------------------------------------------------------
\* The release on the hosting service: the assets a run may find
\* ------------------------------------------------------------------------

asset_name(version, platform, arch, tail) ==
    S_App \o <<"_">> \o version \o <<"_">> \o platform \o <<"_">> \o arch \o tail

N_mac_arm == asset_name(V_1_2_3, S_macos, S_aarch64, S_app_tar_gz)
N_mac_x64 == asset_name(V_1_2_3, S_macos, S_x64, S_app_tar_gz)
N_win == asset_name(V_1_2_3, S_windows, S_x64, <<"-", "s", "e", "t", "u", "p">> \o S_exe)
N_win2 == asset_name(V_2_0_0, S_windows, S_x86_64, S_exe)

\* an asset of the release payload: name, url (API) and browser_download_url
Asset(id, name) ==
    [id |-> id, name |-> name, url |-> <<"api", id>>,
     browser_download_url |-> <<"download", id>>]

AssetUniverse ==
    { Asset(1, N_mac_arm),
      Asset(2, N_mac_arm \o S_sig),
      Asset(3, asset_name(V_1_2_3, S_macos, S_aarch64, S_sig)),
      Asset(4, asset_name(V_1_2_3, S_macos, S_aarch64, <<"-", "b">> \o S_sig)),
      Asset(5, N_mac_arm \o <<".", "o", "l", "d">> \o S_sig),
      Asset(6, asset_name(V_1_2_3, S_darwin, S_arm64, S_tar_gz)),
      Asset(7, asset_name(V_1_2_3, S_darwin, S_aarch64, S_app_tar_gz)),
      Asset(8, N_win),
      Asset(9, N_win \o S_sig),
      Asset(10, N_win2),
      Asset(11, N_win2 \o S_sig),
      Asset(12, N_mac_arm \o S_sig),
      Asset(13, N_mac_x64),
      Asset(14, N_mac_x64 \o S_sig) }

\* the bytes the service returns for the asset behind an API url
AssetBytes(url) ==
    CASE url[2] = 2  -> <<32, 66, 10>>
      [] url[2] = 3  -> <<67, 32, 67, 13, 10>>
      [] url[2] = 4  -> <<9, 68>>
      [] url[2] = 5  -> <<255, 69>>
      [] url[2] = 9  -> <<73, 194, 160>>
      [] url[2] = 11 -> <<75, 10>>
      [] url[2] = 12 -> <<76>>
      [] url[2] = 14 -> <<10, 10>>
      [] OTHER       -> <<85, 80>>

Timestamp == "2024-05-01T12:00:00Z"

Tags == {T_v1_2_3, T_v2_0_0, T_1_2_3, T_v1_2, T_v10_0_12, T_pre, T_meta,
         T_pre_meta, T_dash, T_x, T_under, S_nightly}

\* ------------------------------------------------------------------------
\* State
\* ------------------------------------------------------------------------

VARIABLES
    args,           \* the parsed command line: tag, channel, version, platforms
    release,        \* the assets of the release on the service
    pc,             \* position of main
    requests,       \* the network requests issued so far, in order
    published_at,
    assets,
    version,
    targets,
    idx,            \* index in targets of the next iteration of the loop of line 214
    all_platforms,
    latest_json,    \* <<>> before the file is written, then <<manifest>>
    exit_code,      \* -1 while main runs
    error,          \* the exception that ended the run
    chosen,         \* per platform key written, the updater and signature assets selected
    writes,         \* the platform keys assigned at line 259, in order
    skipped,        \* the platform keys that took the branch of line 237
    ambiguous       \* platform keys for which a tried combination matched several assets

vars == <<args, release, pc, requests, published_at, assets, version, targets,
          idx, all_platforms, latest_json, exit_code, error, chosen, writes,
          skipped, ambiguous>>

NoError == [kind |-> "none", names |-> {}]

Releases == {r \in SUBSET AssetUniverse : Cardinality(r) <= MaxAssets}

InitState ==
    /\ pc = "validate"
    /\ requests = <<>>
    /\ published_at = ""
    /\ assets = {}
    /\ version = <<>>
    /\ targets = <<>>
    /\ idx = 1
    /\ all_platforms = <<>>
    /\ latest_json = <<>>
    /\ exit_code = -1
    /\ error = NoError
    /\ chosen = <<>>
    /\ writes = <<>>
    /\ skipped = {}
    /\ ambiguous = {}

\* a valid stable tag against every release within the bound
InitReleases ==
    /\ args \in [tag : {T_v1_2_3}, channel : {"stable"},
                 version : {<<>>, T_v2_0_0},
                 platforms : {<<>>, P_two, P_linux, P_commas}]
    /\ release \in Releases

\* every tag on both channels against a few releases
InitTags ==
    /\ args \in [tag : Tags, channel : {"stable", "nightly"},
                 version : {<<>>, V_2_0_0}, platforms : {<<>>}]
    /\ release \in {r \in Releases : r \subseteq {Asset(8, N_win), Asset(9, N_win \o S_sig),
                                                  Asset(10, N_win2), Asset(11, N_win2 \o S_sig)}
                                      /\ Cardinality(r) \in {0, 2}}

Init == InitState /\ (InitReleases \/ InitTags)

\* ------------------------------------------------------------------------
\* Steps of main
\* ------------------------------------------------------------------------

\* an exception reaches line 287: message on stderr, exit code 1
Fail(kind, names) ==
    /\ pc' = "done"
    /\ exit_code' = 1
    /\ error' = [kind |-> kind, names |-> names]

\* lines 141-146
ValidateTag ==
    /\ pc = "validate"
    /\ IF tag_accepted(args.channel, args.tag)
       THEN pc' = "fetch" /\ UNCHANGED <<exit_code, error>>
       ELSE Fail("bad_tag", {})
    /\ UNCHANGED <<args, release, requests, published_at, assets, version, targets,
                   idx, all_platforms, latest_json, chosen, writes, skipped, ambiguous>>

\* lines 163-166
derive_version(version_arg, tag) ==
    IF version_arg # <<>> THEN removeprefix(version_arg) ELSE removeprefix(tag)

\* lines 148-166: the release lookup, its checks, the version
FetchRelease ==
    /\ pc = "fetch"
    /\ requests' = Append(requests, <<"release", args.tag>>)
    /\ \E outcome \in {"http_error", "no_timestamp", "ok"} :
          IF outcome = "ok"
          THEN /\ published_at' = Timestamp
               /\ assets' = release
               /\ version' = derive_version(args.version, args.tag)
               /\ pc' = "targets"
               /\ UNCHANGED <<exit_code, error>>
          ELSE /\ Fail(outcome, {})
               /\ UNCHANGED <<published_at, assets, version>>
    /\ UNCHANGED <<args, release, targets, idx, all_platforms, latest_json,
                   chosen, writes, skipped, ambiguous>>

\* lines 176-212
SelectTargets ==
    /\ pc = "targets"
    /\ targets' = filtered_targets(args.platforms)
    /\ IF targets' = <<>>
       THEN Fail("no_targets", {})
       ELSE pc' = "loop" /\ UNCHANGED <<exit_code, error>>
    /\ UNCHANGED <<args, release, requests, published_at, assets, version,
                   idx, all_platforms, latest_json, chosen, writes, skipped, ambiguous>>

\* d[key] = value on a dict
DictSet(d, key, value) ==
    [k \in (DOMAIN d) \cup {key} |-> IF k = key THEN value ELSE d[k]]

\* _download_github_release_asset: the body of the response
_download_github_release_asset(asset_api_url) == AssetBytes(asset_api_url)

\* variant: the decoded text is stored as downloaded
platform_entry_unstripped(updater_asset, sig_text) ==
    [signature |-> sig_text, url |-> updater_asset.browser_download_url]

\* lines 255-262: the entry of one platform; sig_text is the decoded signature
platform_entry(updater_asset, sig_text) ==
    [signature |-> Strip(sig_text, WhitespaceCodes),
     url |-> updater_asset.browser_download_url]

\* variant: a target without updater asset ends the run
SkipTarget_fatal(key) ==
    /\ Fail("missing", {})
    /\ UNCHANGED <<idx, requests, all_platforms, chosen, writes, skipped>>

\* lines 237-244: no updater asset for the target, go on with the next one
SkipTarget(key) ==
    /\ skipped' = skipped \cup {key}
    /\ idx' = idx + 1
    /\ UNCHANGED <<pc, exit_code, error, requests, all_platforms, chosen, writes>>

\* variant: the failure is swallowed and the loop goes on
SignatureFailure_skips(sig) ==
    /\ idx' = idx + 1
    /\ UNCHANGED <<pc, exit_code, error, requests, all_platforms, chosen, writes, skipped>>

\* lines 246-252: _find_signature_asset raises, nothing catches it before line 287
SignatureFailure(sig) ==
    /\ Fail(sig.status \o "_signature", sig.names)
    /\ UNCHANGED <<idx, requests, all_platforms, chosen, writes, skipped>>

\* lines 254-262: download, decode, strip, assign
AddPlatform(key, updater_asset, sig_asset) ==
    /\ requests' = Append(requests, <<"asset", sig_asset.url>>)
    /\ \E response \in {"http_error", "ok"} :
       \E decoded \in {decode(_download_github_release_asset(sig_asset.url))} :
          IF response # "ok"
          THEN /\ Fail("http_error", {})
               /\ UNCHANGED <<idx, all_platforms, chosen, writes, skipped>>
          ELSE IF ~decoded.ok
          THEN /\ Fail("decode_error", {})
               /\ UNCHANGED <<idx, all_platforms, chosen, writes, skipped>>
          ELSE /\ all_platforms' = DictSet(all_platforms, key,
                                           platform_entry(updater_asset, decoded.text))
               /\ chosen' = DictSet(chosen, key,
                                    [updater |-> updater_asset, sig |-> sig_asset])
               /\ writes' = Append(writes, key)
               /\ idx' = idx + 1
               /\ UNCHANGED <<pc, exit_code, error, skipped>>

\* lines 214-262: one iteration of the loop over targets
ProcessTarget ==
    /\ pc = "loop"
    /\ idx <= Len(targets)
    /\ LET target == targets[idx]
           key == platform_key(target)
       IN  \E found \in {updater_search(assets, version, target)} :
           /\ ambiguous' = IF found.ambiguous # {} THEN ambiguous \cup {key} ELSE ambiguous
           /\ IF found.updater_asset = NoAsset
              THEN SkipTarget(key)
              ELSE \E sig \in {_find_signature_asset(
                                  assets, version, target.platform_aliases,
                                  IF found.matched_arch_alias # <<>>
                                  THEN found.matched_arch_alias
                                  ELSE target.arch_aliases[1],
                                  found.updater_asset.name)} :
                   IF sig.status # "ok"
                   THEN SignatureFailure(sig)
                   ELSE AddPlatform(key, found.updater_asset, sig.asset)
    /\ UNCHANGED <<args, release, published_at, assets, version, targets, latest_json>>

\* variant: the tag is written where the version belongs
manifest_with_tag(version_, published_at_, all_platforms_) ==
    [version |-> args.tag, pub_date |-> published_at_, platforms |-> all_platforms_]

\* lines 267-272
manifest(version_, published_at_, all_platforms_) ==
    [version |-> version_, pub_date |-> published_at_, platforms |-> all_platforms_]

\* lines 264-281
WriteManifest ==
    /\ pc = "loop"
    /\ idx > Len(targets)
    /\ IF DOMAIN all_platforms = {}
       THEN Fail("no_platforms", {}) /\ UNCHANGED latest_json
       ELSE /\ latest_json' = << manifest(version, published_at, all_platforms) >>
            /\ pc' = "done"
            /\ exit_code' = 0
            /\ UNCHANGED error
    /\ UNCHANGED <<args, release, requests, published_at, assets, version, targets,
                   idx, all_platforms, chosen, writes, skipped, ambiguous>>

Next ==
    \/ ValidateTag
    \/ FetchRelease
    \/ SelectTargets
    \/ ProcessTarget
    \/ WriteManifest

Spec == Init /\ [][Next]_vars

\* ------------------------------------------------------------------------
\* Properties
\* ------------------------------------------------------------------------

Written == latest_json # <<>>

Failed == pc = "done" /\ exit_code = 1

\* the selected targets, once line 205 has run
Selected == {targets[i] : i \in 1..Len(targets)}

\* the assets of the release whose name matches the updater pattern of target
\* for the combination (arch, ext)
ComboMatches(target, arch, ext) ==
    {a \in assets : pattern_match(a.name, version, target.platform_aliases, arch, ext)}

\* C1: a combination tried for a target that matches two or more assets ends
\* the run at once with an ambiguous-match error naming those assets, exit
\* code 1 and no manifest; the target is neither skipped nor resolved by a
\* later combination.
C1_AmbiguousUpdaterIsFatal ==
    ambiguous # {} =>
        /\ Failed
        /\ error.kind = "multiple" /\ Cardinality(error.names) >= 2
        /\ latest_json = <<>>
        /\ \A key \in ambiguous : key \notin skipped /\ key \notin DOMAIN chosen

\* the tag is malformed for the selected channel
Malformed ==
    IF args.channel = "stable" THEN ~stable_tag_re(args.tag)
    ELSE args.tag # S_nightly /\ ~nightly_tag_re(args.tag)

\* C5: a run with a tag malformed for its channel fails without issuing any
\* network request, and a request is only ever issued for a well-formed tag.
C5_NoRequestOnMalformedTag ==
    /\ Malformed => /\ requests = <<>>
                    /\ pc \in {"validate", "done"}
                    /\ pc = "done" => exit_code = 1 /\ latest_json = <<>>
    /\ requests # <<>> => ~Malformed

C5_Witness ==
    /\ Malformed
    /\ Failed
    /\ error.kind = "bad_tag"
    /\ requests = <<>>

\* [0-9A-Za-z.-]+
IsSuffixBody(s) == s # <<>> /\ \A i \in 1..Len(s) : s[i] \in SuffixChars

\* vMAJOR.MINOR.PATCH, then optionally -prerelease, then optionally +buildmetadata
SemverTag(tag) ==
    \E e \in CoreEnds(tag) :
        LET rest == SubSeq(tag, e, Len(tag))
            plus == {i \in 1..Len(rest) : rest[i] = "+"}
        IN  \/ rest = <<>>
            \/ rest[1] = "+" /\ IsSuffixBody(Tail(rest))
            \/ rest[1] = "-" /\ IsSuffixBody(Tail(rest))
            \/ /\ rest[1] = "-"
               /\ \E p \in plus : /\ IsSuffixBody(SubSeq(rest, 2, p - 1))
                                  /\ IsSuffixBody(SubSeq(rest, p + 1, Len(rest)))

\* C8: tag validation passes, on the nightly channel, exactly for 'nightly'
\* and for vMAJOR.MINOR.PATCH with an optional -prerelease suffix, an optional
\* +buildmetadata suffix, or both; on the stable channel exactly for
\* vMAJOR.MINOR.PATCH.
C8_AcceptedTags ==
    pc # "validate" =>
        ((error.kind # "bad_tag") <=>
            IF args.channel = "stable" THEN stable_tag_re(args.tag)
            ELSE args.tag = S_nightly \/ SemverTag(args.tag))

\* C6 as stated: a successful run on a valid stable tag vX.Y.Z writes X.Y.Z
\* as the version, whatever the other options.
C6_VersionIsTagWithoutV ==
    (Written /\ stable_tag_re(args.tag)) =>
        latest_json[1].version = SubSeq(args.tag, 2, Len(args.tag))

\* C6 amended: a successful run on a valid stable tag vX.Y.Z without a
\* --version override writes X.Y.Z as the version.
C6_VersionIsTagWithoutV_NoOverride ==
    (Written /\ stable_tag_re(args.tag) /\ args.version = <<>>) =>
        latest_json[1].version = SubSeq(args.tag, 2, Len(args.tag))

C6_Witness ==
    /\ Written
    /\ exit_code = 0
    /\ stable_tag_re(args.tag)
    /\ args.version = <<>>
    /\ args.platforms # <<>>
    /\ <<"v">> \o latest_json[1].version = args.tag

\* no combination of the target matches any asset name
NoMatch(target) ==
    \A k \in DOMAIN combos(target) :
        ComboMatches(target, combos(target)[k].arch, combos(target)[k].ext) = {}

KeyOf(target) == target.os_target \o <<"-">> \o target.arch_canonical

\* C2 as stated: a selected target that no combination matches is absent
\* from the manifest, and the run succeeds if at least one target resolved
\* and fails if and only if none did.
C2_SkipThenSuccessIffSomeResolved ==
    (pc = "done" /\ \E t \in Selected : NoMatch(t)) =>
        /\ \A t \in Selected :
              (NoMatch(t) /\ Written) => KeyOf(t) \notin DOMAIN latest_json[1].platforms
        /\ DOMAIN chosen # {} => exit_code = 0 /\ Written
        /\ exit_code = 1 <=> DOMAIN chosen = {}

\* C2 amended: a selected target that no combination matches never ends the
\* run: once processed it is skipped, and its key is absent from the
\* manifest; a run whose loop over the targets completes (no signature
\* resolution, download or decoding failure) succeeds and writes latest.json
\* if at least one target resolved, and fails if and only if none did.
C2_SkipThenSuccessIffSomeResolved_LoopCompleted ==
    /\ \A i \in 1..Len(targets) :
          NoMatch(targets[i]) =>
              /\ KeyOf(targets[i]) \notin DOMAIN all_platforms
              /\ Written => KeyOf(targets[i]) \notin DOMAIN latest_json[1].platforms
              /\ i < idx => KeyOf(targets[i]) \in skipped
              /\ ~(pc = "done" /\ idx = i)
    /\ (pc = "done" /\ targets # <<>> /\ idx > Len(targets)) =>
          /\ DOMAIN chosen # {} => exit_code = 0 /\ Written
          /\ exit_code = 1 <=> DOMAIN chosen = {}

C2_Witness ==
    /\ pc = "done"
    /\ exit_code = 0
    /\ Written
    /\ \E t \in Selected : NoMatch(t) /\ KeyOf(t) \in skipped
    /\ DOMAIN latest_json[1].platforms # {}

\* key is the key of one selected target of the static list, written once,
\* for which one updater asset and one signature asset of the release were
\* selected
ResolvedKey(key) ==
    /\ \E i \in 1..Len(targets) :
          /\ key = KeyOf(targets[i])
          /\ targets[i] \in Range(static_targets)
          /\ args.platforms # <<>> => key \in platform_filter(args.platforms)
          /\ key \in DOMAIN chosen
          /\ chosen[key].updater \in release
          /\ chosen[key].sig \in release
          /\ \E k \in DOMAIN combos(targets[i]) :
                chosen[key].updater \in
                    ComboMatches(targets[i], combos(targets[i])[k].arch,
                                 combos(targets[i])[k].ext)
          /\ EndsWith(chosen[key].sig.name, S_sig)
    /\ Cardinality({j \in 1..Len(writes) : writes[j] = key}) = 1

\* C3: every platform key of the manifest is the "<os>-<arch>" key of a
\* selected target for which one updater asset and one signature asset were
\* selected in this run; a target whose updater or signature resolution
\* failed has no key, and no two targets write the same key.
C3_KeysAreResolvedTargets ==
    /\ \A key \in DOMAIN all_platforms : ResolvedKey(key)
    /\ Written => \A key \in DOMAIN latest_json[1].platforms : ResolvedKey(key)
    /\ \A i, j \in 1..Len(writes) : i # j => writes[i] # writes[j]
    /\ \A key \in skipped : key \notin DOMAIN all_platforms
    /\ (Failed /\ targets # <<>> /\ idx <= Len(targets)) =>
          KeyOf(targets[idx]) \notin DOMAIN all_platforms

C3_Witness ==
    /\ Written
    /\ Cardinality(DOMAIN latest_json[1].platforms) >= 2
    /\ skipped # {}

\* the assets whose name matches the updater pattern of the target
UpdaterMatches(target) ==
    {a \in assets :
        \E k \in DOMAIN combos(target) :
            a \in ComboMatches(target, combos(target)[k].arch, combos(target)[k].ext)}

\* the assets whose name is a .sig name for the updater asset u of the target
SigMatches(target, u) ==
    {a \in assets :
        \/ a.name = u.name \o S_sig
        \/ \E arch \in Range(target.arch_aliases) :
              pattern_match(a.name, version, target.platform_aliases, arch, S_sig)}

\* C4: when exactly one asset matches the updater pattern of a target and
\* exactly one asset matches as its .sig, the manifest entry of the target
\* has the browser_download_url of the first as url and the trimmed UTF-8
\* decoding of the bytes of the second as signature.
C4_EntryOfUniqueMatch ==
    Written =>
        \A t \in Selected :
            \A u \in UpdaterMatches(t) :
                (Cardinality(UpdaterMatches(t)) = 1 /\ Cardinality(SigMatches(t, u)) = 1) =>
                    \A sg \in SigMatches(t, u) :
                        /\ KeyOf(t) \in DOMAIN latest_json[1].platforms
                        /\ latest_json[1].platforms[KeyOf(t)].url = u.browser_download_url
                        /\ latest_json[1].platforms[KeyOf(t)].signature =
                               Strip(decode(AssetBytes(sg.url)).text, WhitespaceCodes)

C4_Witness ==
    /\ Written
    /\ \E t \in Selected :
          \E u \in UpdaterMatches(t) :
              /\ Cardinality(UpdaterMatches(t)) = 1
              /\ Cardinality(SigMatches(t, u)) = 1
              /\ \E sg \in SigMatches(t, u) :
                    /\ sg.name # u.name \o S_sig
                    /\ latest_json[1].platforms[KeyOf(t)].signature
                           # decode(AssetBytes(sg.url)).text

\* the assets literally named <name>.sig
ExactNamed(name) == {a \in assets : a.name = name \o S_sig}

\* C7: when exactly one asset is literally named <updater-asset-name>.sig,
\* signature resolution returns that asset, however many assets match the
\* fallback pattern.
C7_ExactSignatureWins ==
    /\ \A t \in Selected :
          \A u \in assets :
              \A arch \in Range(t.arch_aliases) :
                  Cardinality(ExactNamed(u.name)) = 1 =>
                      LET r == _find_signature_asset(assets, version,
                                                     t.platform_aliases, arch, u.name)
                      IN  r.status = "ok" /\ r.asset \in ExactNamed(u.name)
    /\ \A key \in DOMAIN chosen :
          Cardinality(ExactNamed(chosen[key].updater.name)) = 1 =>
              chosen[key].sig \in ExactNamed(chosen[key].updater.name)
    /\ (Failed /\ error.kind \in {"missing_signature", "multiple_signature"}) =>
          Cardinality(ExactNamed(
              updater_search(assets, version, targets[idx]).updater_asset.name)) # 1

C7_Witness ==
    \E t \in Selected :
        /\ KeyOf(t) \in DOMAIN chosen
        /\ Cardinality(ExactNamed(chosen[KeyOf(t)].updater.name)) = 1
        /\ chosen[KeyOf(t)].sig \in ExactNamed(chosen[KeyOf(t)].updater.name)
        /\ \E arch \in Range(t.arch_aliases) :
              Cardinality(ComboMatches(t, arch, S_sig)) >= 3

\* the fallback candidates of a target whose updater asset was found with arch
FallbackCandidates(target, arch) == ComboMatches(target, arch, S_sig)

\* the candidates that sort first by (does not contain the updater name, name)
FirstRanked(cands, updater_asset_name) ==
    {a \in cands : \A b \in cands : RankLeq(a, b, updater_asset_name)}

\* C9: in the fallback stage with two or more candidates, the candidate that
\* sorts first (containing the updater asset name, then smallest name) is
\* selected; resolution is fatal only if several candidates sort first.
C9_FallbackPicksFirstRanked ==
    \A i \in 1..Len(targets) :
        (pc \in {"loop", "done"} /\ i <= idx) =>
            LET found == updater_search(assets, version, targets[i])
                u == found.updater_asset
                cands == FallbackCandidates(targets[i], found.matched_arch_alias)
                first == FirstRanked(cands, u.name)
            IN  (u # NoAsset /\ ExactNamed(u.name) = {} /\ Cardinality(cands) >= 2) =>
                    /\ (i < idx /\ Cardinality(first) = 1) =>
                          /\ KeyOf(targets[i]) \in DOMAIN chosen
                          /\ chosen[KeyOf(targets[i])].sig \in first
                    /\ (i = idx /\ Failed /\ error.kind = "multiple_signature") =>
                          Cardinality(first) > 1

\* the updater asset of the target is found and no signature asset is
HasUpdaterButNoSignature(target) ==
    /\ pc \in {"loop", "done"}
    /\ LET found == updater_search(assets, version, target)
       IN  /\ found.updater_asset # NoAsset
           /\ ExactNamed(found.updater_asset.name) = {}
           /\ FallbackCandidates(target, found.matched_arch_alias) = {}

\* C10: a target whose updater asset resolves and that has no signature
\* asset ends the run with exit code 1 instead of being skipped, and no
\* manifest is written, whatever earlier targets resolved; the manifest is
\* written only once every selected target was processed without fatal error.
C10_MissingSignatureIsFatal ==
    /\ \A i \in 1..Len(targets) :
          HasUpdaterButNoSignature(targets[i]) =>
              /\ idx <= i
              /\ KeyOf(targets[i]) \notin skipped
              /\ KeyOf(targets[i]) \notin DOMAIN all_platforms
              /\ latest_json = <<>>
              /\ (pc = "done" /\ idx = i) =>
                    exit_code = 1 /\ error.kind = "missing_signature"
    /\ Written =>
          /\ pc = "done"
          /\ exit_code = 0
          /\ error = NoError
          /\ idx = Len(targets) + 1
          /\ \A t \in Selected : KeyOf(t) \in skipped \cup DOMAIN chosen

C10_Witness ==
    /\ Failed
    /\ error.kind = "missing_signature"
    /\ DOMAIN chosen # {}
    /\ idx <= Len(targets)
    /\ HasUpdaterButNoSignature(targets[idx])
    /\ latest_json = <<>>

====
